---- MODULE Spec2Model ----
(***************************************************************************)
(* Entity shapes of the BU Housing knowledge graph                         *)
(* (mcp_server/src/models/bu_housing_entity_types.py).                     *)
(*                                                                         *)
(* The module declares fourteen pydantic BaseModel classes and one         *)
(* registry, BU_HOUSING_ENTITY_TYPES.  A candidate record is decoded by    *)
(* constructing the class of its type name; the classes declare no         *)
(* validators, so the field annotations are the whole of the validation.   *)
(***************************************************************************)
EXTENDS Integers, Sequences, FiniteSets, TLC

VARIABLES
    catalog,     \* the registry: sequence of registered type names
    pc,          \* "idle" | "submitted" | "done" | "answered" | "looked" | "enumerating"
    typeName,    \* type name of the candidate under validation
    record,      \* the candidate record: field name -> value
    verdict,     \* "none" | "success" | "StructuralError"
    errors,      \* decode errors, in field declaration order
    instance,    \* the decoded model instance, or NoInstance
    edgeQuery,   \* last hierarchy-legality query <<parent, child, kind>>
    edgeAnswer,  \* its answer
    lookupName,  \* type name of the last registry lookup
    lookupResult,\* its outcome
    iters        \* the open enumerations of the registry's type names

vars == <<catalog, pc, typeName, record, verdict, errors, instance,
          edgeQuery, edgeAnswer, lookupName, lookupResult, iters>>

(***************************************************************************)
(* Bounds of the model.                                                    *)
(***************************************************************************)
\* integers offered to a field are -1 .. MaxCapacity
MaxCapacity == 2
\* enumerations of the registry open at the same time
MaxIterators == 2

(***************************************************************************)
(* Values a candidate record can hold for a field.                         *)
(***************************************************************************)
\* a text is the sequence of its characters
Absent == [kind |-> "absent", s |-> <<>>, n |-> 0]
Null == [kind |-> "null", s |-> <<>>, n |-> 0]
StrV(x) == [kind |-> "str", s |-> x, n |-> 0]
IntV(i) == [kind |-> "int", s |-> <<>>, n |-> i]
BoolV(b) == [kind |-> "bool", s |-> <<>>, n |-> IF b THEN 1 ELSE 0]

NoInstance == <<>>
NoQuery == <<>>

(***************************************************************************)
(* Field declarations.  `name: str = Field(...)` is a required text field, *)
(* `name: T | None = Field(None)` an optional field of kind T whose        *)
(* default is None.                                                        *)
(***************************************************************************)
Req(name, kind) == [name |-> name, kind |-> kind, required |-> TRUE]
Opt(name, kind) == [name |-> name, kind |-> kind, required |-> FALSE]

Role ==
    << Req("affiliation_type", "str"),
       Opt("job_title", "str"),
       Opt("department", "str"),
       Opt("responsibilities", "str"),
       Opt("assigned_location", "str"),
       Opt("role_status", "str") >>

LocationArea ==
    << Req("name", "str"),
       Opt("campus_location", "str"),
       Opt("description", "str"),
       Opt("area_amenities", "str"),
       Opt("special_designation", "str") >>

Facility ==
    << Req("name", "str"),
       Opt("street_address", "str"),
       Opt("location_area", "str"),
       Opt("building_type", "str"),
       Opt("total_capacity", "int"),
       Opt("number_of_floors", "int"),
       Opt("building_amenities", "str"),
       Opt("accessibility_features", "str"),
       Opt("special_designation", "str"),
       Opt("year_built", "str") >>

FloorOrSuite ==
    << Req("identifier", "str"),
       Req("building_name", "str"),
       Opt("floor_number", "int"),
       Opt("subdivision_type", "str"),
       Opt("number_of_rooms", "int"),
       Opt("shared_spaces", "str"),
       Opt("floor_amenities", "str"),
       Opt("special_designation", "str") >>

\* variant: the parent references of a room are optional hints
Room_OptionalParents ==
    << Req("room_number", "str"),
       Opt("floor_or_suite", "str"),
       Opt("building_name", "str"),
       Opt("room_type", "str"),
       Opt("capacity", "int"),
       Opt("square_footage", "int"),
       Opt("room_features", "str"),
       Opt("furniture_provided", "str"),
       Opt("accessibility_features", "str") >>

Room ==
    << Req("room_number", "str"),
       Req("floor_or_suite", "str"),
       Req("building_name", "str"),
       Opt("room_type", "str"),
       Opt("capacity", "int"),
       Opt("square_footage", "int"),
       Opt("room_features", "str"),
       Opt("furniture_provided", "str"),
       Opt("accessibility_features", "str") >>

RoomSpace ==
    << Req("space_identifier", "str"),
       Req("room_number", "str"),
       Req("floor_or_suite", "str"),
       Req("building_name", "str"),
       Opt("space_type", "str"),
       Opt("space_features", "str"),
       Opt("furniture_items", "str"),
       Opt("accessibility_accommodations", "str"),
       Opt("space_status", "str") >>

Agreement ==
    << Opt("contract_id", "str"),
       Req("contract_type", "str"),
       Opt("start_date", "str"),
       Opt("end_date", "str"),
       Opt("payment_amount", "str"),
       Opt("terms", "str"),
       Opt("status", "str") >>

ServiceRequest ==
    << Opt("request_id", "str"),
       Req("issue_type", "str"),
       Req("description", "str"),
       Opt("priority", "str"),
       Req("location", "str"),
       Opt("status", "str"),
       Opt("submitted_date", "str") >>

AmenityFacility ==
    << Req("name", "str"),
       Req("amenity_type", "str"),
       Req("location", "str"),
       Opt("access_details", "str"),
       Opt("features", "str") >>

Assignment ==
    << Req("role_type", "str"),
       Req("unit_number", "str"),
       Req("building_name", "str"),
       Req("assignment_period", "str"),
       Opt("move_in_date", "str"),
       Opt("move_out_date", "str"),
       Opt("status", "str") >>

Policy ==
    << Req("policy_name", "str"),
       Req("category", "str"),
       Req("description", "str"),
       Opt("applies_to", "str"),
       Opt("consequences", "str") >>

Application ==
    << Req("application_type", "str"),
       Opt("applicant_role", "str"),
       Opt("preferences", "str"),
       Opt("accommodation_needs", "str"),
       Opt("roommate_criteria", "str"),
       Opt("status", "str"),
       Opt("submission_date", "str"),
       Opt("lottery_number", "str") >>

Event ==
    << Req("event_name", "str"),
       Req("event_type", "str"),
       Opt("date", "str"),
       Req("location", "str"),
       Req("description", "str"),
       Opt("mandatory", "bool") >>

FinancialTransaction ==
    << Opt("transaction_id", "str"),
       Req("amount", "str"),
       Req("transaction_type", "str"),
       Opt("associated_unit", "str"),
       Opt("due_date", "str"),
       Opt("transaction_date", "str"),
       Opt("payment_method_type", "str"),
       Opt("status", "str") >>

(***************************************************************************)
(* The registry, in the order of the dict literal.                         *)
(***************************************************************************)
\* variant: the fifth level is left out of the dict literal
BU_HOUSING_ENTITY_TYPES_FourLevels ==
    << "Role", "LocationArea", "Facility", "FloorOrSuite", "Room",
       "AmenityFacility", "Agreement", "ServiceRequest", "Assignment",
       "Policy", "Application", "Event", "FinancialTransaction" >>

BU_HOUSING_ENTITY_TYPES ==
    << "Role", "LocationArea", "Facility", "FloorOrSuite", "Room", "RoomSpace",
       "AmenityFacility", "Agreement", "ServiceRequest", "Assignment",
       "Policy", "Application", "Event", "FinancialTransaction" >>

\* the class a registered name maps to
ShapeOf(t) ==
    CASE t = "Role" -> Role
      [] t = "LocationArea" -> LocationArea
      [] t = "Facility" -> Facility
      [] t = "FloorOrSuite" -> FloorOrSuite
      [] t = "Room" -> Room
      [] t = "RoomSpace" -> RoomSpace
      [] t = "AmenityFacility" -> AmenityFacility
      [] t = "Agreement" -> Agreement
      [] t = "ServiceRequest" -> ServiceRequest
      [] t = "Assignment" -> Assignment
      [] t = "Policy" -> Policy
      [] t = "Application" -> Application
      [] t = "Event" -> Event
      [] t = "FinancialTransaction" -> FinancialTransaction

TypeNames == {BU_HOUSING_ENTITY_TYPES[i] : i \in DOMAIN BU_HOUSING_ENTITY_TYPES}

FieldNames(t) == {ShapeOf(t)[i].name : i \in DOMAIN ShapeOf(t)}

(***************************************************************************)
(* Decoding of one value against a field annotation (pydantic, lax mode).  *)
(***************************************************************************)
DigitStr(d) ==
    CASE d = 0 -> "0" [] d = 1 -> "1" [] d = 2 -> "2" [] d = 3 -> "3"
      [] d = 4 -> "4" [] d = 5 -> "5" [] d = 6 -> "6" [] d = 7 -> "7"
      [] d = 8 -> "8" [] d = 9 -> "9"

Digits == {DigitStr(d) : d \in 0 .. 9}
DigitVal(c) == CHOOSE d \in 0 .. 9 : DigitStr(d) = c

RECURSIVE NatToStr(_)
NatToStr(n) ==
    IF n < 10 THEN <<DigitStr(n)>> ELSE Append(NatToStr(n \div 10), DigitStr(n % 10))

\* the decimal text of an integer, as Python's str() writes it
IntToStr(i) == IF i < 0 THEN <<"-">> \o NatToStr(0 - i) ELSE NatToStr(i)

\* the characters with the Unicode White_Space property; one that has no
\* escape in a string is written by its code point
WhiteSpace ==
    { " ", "\t", "\n", "\f", "\r", "U+000B", "U+0085", "U+00A0", "U+1680",
      "U+2000", "U+2001", "U+2002", "U+2003", "U+2004", "U+2005", "U+2006",
      "U+2007", "U+2008", "U+2009", "U+200A", "U+2028", "U+2029", "U+202F",
      "U+205F", "U+3000" }

RECURSIVE TrimStart(_)
TrimStart(x) ==
    IF x # <<>> /\ Head(x) \in WhiteSpace THEN TrimStart(Tail(x)) ELSE x

RECURSIVE TrimEnd(_)
TrimEnd(x) ==
    IF x # <<>> /\ x[Len(x)] \in WhiteSpace
    THEN TrimEnd(SubSeq(x, 1, Len(x) - 1)) ELSE x

Trim(x) == TrimEnd(TrimStart(x))

Some(x) == [ok |-> TRUE, s |-> x]
None == [ok |-> FALSE, s |-> <<>>]

\* a leading plus sign is dropped, unless a minus sign follows it
strip_plus(x) ==
    IF x # <<>> /\ x[1] = "+"
    THEN IF Len(x) > 1 /\ x[2] = "-" THEN None ELSE Some(Tail(x))
    ELSE Some(x)

\* a leading minus sign is set aside, unless another sign follows it
strip_minus(x) ==
    IF x # <<>> /\ x[1] = "-"
    THEN IF Len(x) > 1 /\ x[2] \in {"-", "+"} THEN None ELSE Some(Tail(x))
    ELSE Some(x)

\* leading zeros (and underscores among them) are dropped up to the first
\* other digit or minus sign; a zero is kept before a decimal point and
\* when there is nothing else
strip_leading_zeros(x) ==
    IF x = <<>> THEN None
    ELSE IF x[1] \in (Digits \ {"0"}) \cup {"-"} THEN Some(x)
    ELSE IF x[1] # "0" THEN None
    ELSE LET rest == {i \in 2 .. Len(x) : x[i] \notin {"0", "_"}}
         IN IF rest = {} THEN Some(SubSeq(x, Len(x), Len(x)))
            ELSE LET i == CHOOSE j \in rest : \A k \in rest : j <= k
                 IN IF x[i] \in (Digits \ {"0"}) \cup {"-"}
                    THEN Some(SubSeq(x, i, Len(x)))
                    ELSE IF x[i] = "." THEN Some(SubSeq(x, i - 1, Len(x)))
                    ELSE None

\* a decimal point followed by zeros only, and at least one, is dropped
strip_decimal_zeros(x) ==
    LET dots == {i \in DOMAIN x : x[i] = "."}
    IN IF dots = {} THEN x
       ELSE LET i == CHOOSE j \in dots : \A k \in dots : j <= k
            IN IF i < Len(x) /\ \A k \in (i + 1) .. Len(x) : x[k] = "0"
               THEN SubSeq(x, 1, i - 1) ELSE x

\* single underscores inside the text are dropped
strip_underscores(x) ==
    LET Keep(c) == c # "_"
    IN IF \/ \A i \in DOMAIN x : x[i] # "_"
          \/ x[1] = "_" \/ x[Len(x)] = "_"
          \/ \E i \in 1 .. (Len(x) - 1) : x[i] = "_" /\ x[i + 1] = "_"
       THEN x ELSE SelectSeq(x, Keep)

RECURSIVE DigitsToNat(_)
DigitsToNat(x) ==
    IF x = <<>> THEN 0
    ELSE 10 * DigitsToNat(SubSeq(x, 1, Len(x) - 1)) + DigitVal(x[Len(x)])

\* the longest number read: its minus sign and its digits
MaxNumberLen == 4300

\* the length of the digit run a text starts with
DigitRun(x) ==
    LET others == {i \in DOMAIN x : x[i] \notin Digits}
    IN IF others = {} THEN Len(x)
       ELSE (CHOOSE j \in others : \A k \in others : j <= k) - 1

IntOk(i) == [ok |-> TRUE, n |-> i, err |-> ""]
IntErr(e) == [ok |-> FALSE, n |-> 0, err |-> e]

\* the digits after the sign: a zero, or a run that does not start with a
\* zero; a run that passes the longest number is refused for its size
\* before what follows it is looked at
parse_digits(negative, body, run) ==
    IF run = 0 THEN IntErr("int_parsing")
    ELSE IF body[1] = "0"
    THEN IF Len(body) = 1 THEN IntOk(0) ELSE IntErr("int_parsing")
    ELSE IF run + (IF negative THEN 1 ELSE 0) > MaxNumberLen
    THEN IntErr("int_parsing_size")
    ELSE IF run < Len(body) THEN IntErr("int_parsing")
    ELSE IF negative THEN IntOk(0 - DigitsToNat(body))
    ELSE IntOk(DigitsToNat(body))

\* a number is a minus sign, if any, and then its digits
parse_int(x) ==
    IF x # <<>> /\ x[1] = "-"
    THEN parse_digits(TRUE, Tail(x), DigitRun(Tail(x)))
    ELSE parse_digits(FALSE, x, DigitRun(x))

\* the digits with their decimal zeros and underscores dropped, once the
\* leading zeros are
after_zeros(lead) ==
    IF lead.ok THEN Some(strip_underscores(strip_decimal_zeros(lead.s)))
    ELSE None

\* the digits with their zeros, decimal zeros and underscores dropped
clean_digits(x) == after_zeros(strip_leading_zeros(x))

\* the digits cleaned, once the minus sign is set aside
after_minus(minus) == IF minus.ok THEN clean_digits(minus.s) ELSE None

\* the minus sign, when the text has one, put back before the cleaned digits
with_sign(negative, opt) ==
    IF opt.ok /\ negative THEN Some(<<"-">> \o opt.s) ELSE opt

\* the text with its minus sign set aside while its digits are cleaned
clean_signed(x) ==
    with_sign(x # <<>> /\ x[1] = "-", after_minus(strip_minus(x)))

\* the rest cleaned, once the plus sign is dropped
after_plus(plus) == IF plus.ok THEN clean_signed(plus.s) ELSE None

\* the text with its plus sign dropped, its minus sign set aside and its
\* zeros, decimal zeros and underscores dropped
clean_int_str(x) == after_plus(strip_plus(x))

\* the reading of the cleaned text; whatever makes it fail is reported as
\* int_parsing
cleaned_int(r) == IF r.ok THEN r ELSE IntErr("int_parsing")

\* the number as it stands, and otherwise the cleaned text read as a number;
\* only the text as it stands is refused for its size
parse_or_clean(raw, cleaned) ==
    IF raw.ok \/ raw.err = "int_parsing_size" THEN raw
    ELSE IF cleaned.ok THEN cleaned_int(parse_int(cleaned.s))
    ELSE IntErr("int_parsing")

\* a text is read as an int as it is given when it is a number, and
\* trimmed and cleaned otherwise
str_as_int(x) == parse_or_clean(parse_int(x), clean_int_str(Trim(x)))

HexDigits ==
    { "0", "1", "2", "3", "4", "5", "6", "7", "8", "9", "A", "B", "C", "D",
      "E", "F" }

\* the surrogate code points, U+D800 to U+DFFF: a text that holds one
\* cannot be read as Unicode
Surrogates ==
    { "U+D" \o a \o b \o c :
        a \in {"8", "9", "A", "B", "C", "D", "E", "F"},
        b \in HexDigits, c \in HexDigits }

HasSurrogate(x) == \E i \in DOMAIN x : x[i] \in Surrogates

\* the upper-case letters of the boolean words, with their lower case
LowerOf(c) ==
    CASE c = "A" -> "a" [] c = "E" -> "e" [] c = "F" -> "f" [] c = "L" -> "l"
      [] c = "N" -> "n" [] c = "O" -> "o" [] c = "R" -> "r" [] c = "S" -> "s"
      [] c = "T" -> "t" [] c = "U" -> "u" [] c = "Y" -> "y"
      [] OTHER -> c

\* the text with its letters in lower case
Lower(x) == [i \in DOMAIN x |-> LowerOf(x[i])]

TrueTexts ==
    { <<"1">>, <<"o", "n">>, <<"t">>, <<"t", "r", "u", "e">>, <<"y">>,
      <<"y", "e", "s">> }
FalseTexts ==
    { <<"0">>, <<"o", "f", "f">>, <<"f">>, <<"f", "a", "l", "s", "e">>,
      <<"n">>, <<"n", "o">> }

Ok(v) == [ok |-> TRUE, value |-> v, err |-> ""]
Err(e) == [ok |-> FALSE, value |-> Null, err |-> e]

\* a `str` annotation accepts text only
validate_str(v) ==
    IF v.kind = "str" THEN Ok(v) ELSE Err("string_type")

\* the int read from a text, or the error of the reading
int_from_str(r) == IF r.ok THEN Ok(IntV(r.n)) ELSE Err(r.err)

\* an `int` annotation accepts an int, a bool (as 0 or 1) and numeric text;
\* a text that is not Unicode is refused before it is read
validate_int(v) ==
    CASE v.kind = "int" -> Ok(v)
      [] v.kind = "bool" -> Ok(IntV(v.n))
      [] v.kind = "str" ->
            IF HasSurrogate(v.s) THEN Err("string_unicode")
            ELSE int_from_str(str_as_int(v.s))
      [] OTHER -> Err("int_type")

\* an int between -2^63 and 2^63 - 1: its quotient by 2^63, taken in four
\* steps, is 0 or -1
Fits64(n) ==
    (((n \div 65536) \div 65536) \div 65536) \div 32768 \in {0 - 1, 0}

\* a `bool` annotation accepts a bool, the ints 0 and 1 and the boolean
\* words in any letter case
validate_bool(v) ==
    CASE v.kind = "bool" -> Ok(v)
      [] v.kind = "int" ->
            IF v.n \in {0, 1} THEN Ok(BoolV(v.n = 1))
            ELSE IF Fits64(v.n) THEN Err("bool_parsing")
            ELSE Err("bool_type")
      [] v.kind = "str" ->
            IF HasSurrogate(v.s) THEN Err("string_unicode")
            ELSE IF Lower(v.s) \in TrueTexts THEN Ok(BoolV(TRUE))
            ELSE IF Lower(v.s) \in FalseTexts THEN Ok(BoolV(FALSE))
            ELSE Err("bool_parsing")
      [] OTHER -> Err("bool_type")

validate_kind(kind, v) ==
    CASE kind = "str" -> validate_str(v)
      [] kind = "int" -> validate_int(v)
      [] kind = "bool" -> validate_bool(v)

\* variant: every field is treated as `T | None = None`
DecodeField_AllOptional(fs, v) ==
    IF v = Absent \/ v = Null THEN Ok(Null) ELSE validate_kind(fs.kind, v)

\* one declared field against the value the candidate holds for it
DecodeField(fs, v) ==
    IF v = Absent
    THEN IF fs.required THEN Err("missing") ELSE Ok(Null)
    ELSE IF v = Null /\ ~fs.required
    THEN Ok(Null)
    ELSE validate_kind(fs.kind, v)

(***************************************************************************)
(* Decoding of a candidate record: every declared field is decoded, the    *)
(* errors of all failing fields are collected in declaration order, and    *)
(* an instance exists only when there is none.                             *)
(***************************************************************************)
ValueAt(rec, f) == IF f \in DOMAIN rec THEN rec[f] ELSE Absent

\* the error entry of a failing field: where, and what
ErrorDetails(fields, rec) ==
    [i \in DOMAIN fields |->
        [loc |-> fields[i].name,
         type |-> DecodeField(fields[i], ValueAt(rec, fields[i].name)).err]]

DecodeErrors(t, rec) ==
    LET Fails(fs) == ~DecodeField(fs, ValueAt(rec, fs.name)).ok
    IN ErrorDetails(SelectSeq(ShapeOf(t), Fails), rec)

Decoded(t, rec) ==
    LET shape == ShapeOf(t)
    IN [f \in FieldNames(t) |->
            LET i == CHOOSE j \in DOMAIN shape : shape[j].name = f
            IN DecodeField(shape[i], ValueAt(rec, f)).value]

\* the errors raised when there are any, the instance otherwise
Outcome(errs, inst) ==
    IF errs # <<>>
    THEN [verdict |-> "StructuralError", errors |-> errs, instance |-> NoInstance]
    ELSE [verdict |-> "success", errors |-> <<>>, instance |-> inst]

\* construction of the class registered under t from the candidate record
validate(t, rec) == Outcome(DecodeErrors(t, rec), Decoded(t, rec))

(***************************************************************************)
(* Reads of the registry, a plain dict from type name to class.            *)
(***************************************************************************)
NoDefinition == <<>>
NoLookup == [outcome |-> "none", definition |-> NoDefinition, exception |-> ""]

Registered(cat, t) == \E i \in DOMAIN cat : cat[i] = t

\* variant: a missing key is given an empty default and stored
lookup_Defaulting(cat, t) ==
    IF Registered(cat, t)
    THEN [outcome |-> "returned", definition |-> ShapeOf(t), exception |-> "",
          catalog |-> cat]
    ELSE [outcome |-> "returned", definition |-> NoDefinition,
          exception |-> "", catalog |-> Append(cat, t)]

\* the subscript of the dict: the class of a key is returned, KeyError is
\* raised for any other name; the dict is left as it was
lookup(cat, t) ==
    IF Registered(cat, t)
    THEN [outcome |-> "returned", definition |-> ShapeOf(t), exception |-> "",
          catalog |-> cat]
    ELSE [outcome |-> "raised", definition |-> NoDefinition,
          exception |-> "KeyError", catalog |-> cat]

\* variant: one cursor is shared by all enumerations
all_types_SharedCursor(cat, open) ==
    LET furthest == IF open = <<>> THEN 0
                    ELSE CHOOSE p \in {open[i].pos : i \in DOMAIN open} :
                            \A j \in DOMAIN open : open[j].pos <= p
    IN [pos |-> furthest, out |-> <<>>, done |-> FALSE]

\* iteration over the dict's keys: a fresh iterator at the first key
all_types(cat, open) == [pos |-> 0, out |-> <<>>, done |-> FALSE]

\* the next key in insertion order, or the end of the iteration
iter_next(cat, it) ==
    IF it.pos < Len(cat)
    THEN [pos |-> it.pos + 1, out |-> Append(it.out, cat[it.pos + 1]),
          done |-> FALSE]
    ELSE [it EXCEPT !.done = TRUE]

(***************************************************************************)
(* The spatial hierarchy.  Each spatial class states its level ("Hierarchy *)
(* Level: n of 5"); the other classes have none (0).                       *)
(***************************************************************************)
\* variant: AmenityFacility, also a cco:Facility, is given a level
HierarchyLevel_AmenityLevelled(t) ==
    CASE t = "LocationArea" -> 1
      [] t = "Facility" -> 2
      [] t = "FloorOrSuite" -> 3
      [] t = "Room" -> 4
      [] t = "RoomSpace" -> 5
      [] t = "AmenityFacility" -> 3
      [] OTHER -> 0

\* variant: the levels are numbered from the bed space up
HierarchyLevel_BottomUp(t) ==
    CASE t = "LocationArea" -> 5
      [] t = "Facility" -> 4
      [] t = "FloorOrSuite" -> 3
      [] t = "Room" -> 2
      [] t = "RoomSpace" -> 1
      [] OTHER -> 0

HierarchyLevel(t) ==
    CASE t = "LocationArea" -> 1
      [] t = "Facility" -> 2
      [] t = "FloorOrSuite" -> 3
      [] t = "Room" -> 4
      [] t = "RoomSpace" -> 5
      [] OTHER -> 0

EdgeKinds == {"CONTAINS", "PART_OF", "PRECEDES"}

\* CONTAINS is legal from a level to the next one down and between no other
\* types; the temporal kinds relate term types, of which none is registered
is_legal_edge(parent_type, child_type, edge_kind) ==
    /\ edge_kind = "CONTAINS"
    /\ HierarchyLevel(parent_type) > 0
    /\ HierarchyLevel(child_type) = HierarchyLevel(parent_type) + 1

(***************************************************************************)
(* Candidate records offered by the extraction engine.                     *)
(***************************************************************************)
Employee == <<"e", "m", "p", "l", "o", "y", "e", "e">>
Student == <<"s", "t", "u", "d", "e", "n", "t">>
Academic == <<"a", "c", "a", "d", "e", "m", "i", "c">>
ResidenceHall ==
    <<"r", "e", "s", "i", "d", "e", "n", "c", "e", "_", "h", "a", "l", "l">>

BaseText == Employee

\* words: none of them reads as an int, the last one reads as a bool
Texts == {Employee, Student, Academic, ResidenceHall, <<"T", "r", "u", "e">>}

\* numerals as people write them: "01", "+1", "\r1 ", "1.0", "1_0", "0-1",
\* and four that are not read as an int: "-_1", "1.", "0-01" and a 1
\* followed by a lone surrogate
Numerals ==
    { <<"0", "1">>, <<"+", "1">>, <<"\r", "1", " ">>, <<"1", ".", "0">>,
      <<"1", "_", "0">>, <<"0", "-", "1">>, <<"-", "_", "1">>, <<"1", ".">>,
      <<"0", "-", "0", "1">>, <<"1", "U+D800">> }

\* the capacities offered, one below zero included
Ints == (0 - 1) .. MaxCapacity

Values ==
    {Absent, Null, BoolV(TRUE), BoolV(FALSE)}
        \cup {StrV(x) : x \in Texts}
        \cup {StrV(IntToStr(i)) : i \in Ints}
        \cup {StrV(x) : x \in Numerals}
        \cup {IntV(i) : i \in Ints}

\* every required field holds a text, every optional field is absent
Baseline(t) ==
    LET shape == ShapeOf(t)
    IN [f \in FieldNames(t) |->
            IF \E i \in DOMAIN shape : shape[i].name = f /\ shape[i].required
            THEN StrV(BaseText) ELSE Absent]

\* the baseline with the fields f1 and f2 set to v1 and v2
Candidate(t, f1, v1, f2, v2) ==
    [f \in FieldNames(t) |->
        IF f = f2 THEN v2 ELSE IF f = f1 THEN v1 ELSE Baseline(t)[f]]

(***************************************************************************)
(* The state machine: calls are synchronous, one at a time.                *)
(***************************************************************************)
Init ==
    /\ catalog = BU_HOUSING_ENTITY_TYPES
    /\ pc = "idle"
    /\ typeName = ""
    /\ record = <<>>
    /\ verdict = "none"
    /\ errors = <<>>
    /\ instance = NoInstance
    /\ edgeQuery = NoQuery
    /\ edgeAnswer = FALSE
    /\ lookupName = ""
    /\ lookupResult = NoLookup
    /\ iters = <<>>

\* the extraction engine hands over a candidate record tagged with a type name
Submit(t, rec) ==
    /\ pc = "idle"
    /\ pc' = "submitted"
    /\ typeName' = t
    /\ record' = rec
    /\ UNCHANGED <<catalog, verdict, errors, instance, edgeQuery, edgeAnswer,
                   lookupName, lookupResult, iters>>

\* the class registered under the type name is constructed from the record
Validate ==
    /\ pc = "submitted"
    /\ LET r == validate(typeName, record)
       IN /\ verdict' = r.verdict
          /\ errors' = r.errors
          /\ instance' = r.instance
    /\ pc' = "done"
    /\ UNCHANGED <<catalog, typeName, record, edgeQuery, edgeAnswer,
                   lookupName, lookupResult, iters>>

\* the graph writer asks whether an edge kind is legal between two types
CheckEdge(p, c, k) ==
    /\ pc = "idle"
    /\ pc' = "answered"
    /\ edgeQuery' = <<p, c, k>>
    /\ edgeAnswer' = is_legal_edge(p, c, k)
    /\ UNCHANGED <<catalog, typeName, record, verdict, errors, instance,
                   lookupName, lookupResult, iters>>

\* the call returns; nothing of it is retained
\* a consumer looks a type name up in the registry
Lookup(t) ==
    /\ pc = "idle"
    /\ pc' = "looked"
    /\ lookupName' = t
    /\ LET r == lookup(catalog, t)
       IN /\ lookupResult' = [outcome |-> r.outcome, definition |-> r.definition,
                               exception |-> r.exception]
          /\ catalog' = r.catalog
    /\ UNCHANGED <<typeName, record, verdict, errors, instance, edgeQuery,
                   edgeAnswer, iters>>

\* a consumer starts an enumeration of the type names
OpenEnumeration ==
    /\ pc \in {"idle", "enumerating"}
    /\ Len(iters) < MaxIterators
    /\ pc' = "enumerating"
    /\ iters' = Append(iters, all_types(catalog, iters))
    /\ UNCHANGED <<catalog, typeName, record, verdict, errors, instance,
                   edgeQuery, edgeAnswer, lookupName, lookupResult>>

\* a consumer takes the next item of one of its enumerations
Advance(i) ==
    /\ pc = "enumerating"
    /\ ~iters[i].done
    /\ iters' = [iters EXCEPT ![i] = iter_next(catalog, iters[i])]
    /\ UNCHANGED <<catalog, pc, typeName, record, verdict, errors, instance,
                   edgeQuery, edgeAnswer, lookupName, lookupResult>>

Release ==
    /\ pc \in {"done", "answered", "looked", "enumerating"}
    /\ pc' = "idle"
    /\ typeName' = ""
    /\ record' = <<>>
    /\ verdict' = "none"
    /\ errors' = <<>>
    /\ instance' = NoInstance
    /\ edgeQuery' = NoQuery
    /\ edgeAnswer' = FALSE
    /\ lookupName' = ""
    /\ lookupResult' = NoLookup
    /\ iters' = <<>>
    /\ UNCHANGED catalog

\* any registered type, any candidate of the bounded set
SubmitAny ==
    /\ pc = "idle"
    /\ \E i \in DOMAIN catalog :
          \E f1 \in FieldNames(catalog[i]), f2 \in FieldNames(catalog[i]) :
             \E v1 \in Values, v2 \in Values :
                Submit(catalog[i], Candidate(catalog[i], f1, v1, f2, v2))

CheckEdgeAny ==
    /\ pc = "idle"
    /\ \E i \in DOMAIN catalog, j \in DOMAIN catalog : \E k \in EdgeKinds :
          CheckEdge(catalog[i], catalog[j], k)

\* names a consumer may ask for: the shipped ones and some that are not
LookupNames ==
    { "Role", "LocationArea", "Facility", "FloorOrSuite", "Room", "RoomSpace",
      "AmenityFacility", "Agreement", "ServiceRequest", "Assignment",
      "Policy", "Application", "Event", "FinancialTransaction",
      "Building", "Person", "role", "" }

LookupAny == \E t \in LookupNames : Lookup(t)

AdvanceAny == \E i \in DOMAIN iters : Advance(i)

Next ==
    \/ SubmitAny
    \/ Validate
    \/ CheckEdgeAny
    \/ LookupAny
    \/ OpenEnumeration
    \/ AdvanceAny
    \/ Release

Spec == Init /\ [][Next]_vars

(***************************************************************************)
(* Properties.                                                             *)
(***************************************************************************)
\* a field is present when the record holds a value other than null for it
Present(rec, f) == ValueAt(rec, f) \notin {Absent, Null}

Validated(t) == pc = "done" /\ typeName = t

\* C1: discriminated requirement on Role.  For every structurally valid Role
\* record, validate fails when affiliation_type is "employee" and job_title
\* or department is absent and succeeds when both are present; it fails when
\* affiliation_type is "student" and the student-role field is absent and
\* succeeds when it is present.
C1_DiscriminatedRequirement ==
    (Validated("Role") /\ errors = <<>>) =>
        LET employee == record["affiliation_type"] = StrV(Employee)
            student == record["affiliation_type"] = StrV(Student)
            both == Present(record, "job_title") /\ Present(record, "department")
            role == Present(record, "student_role")
        IN /\ (employee /\ ~both) => verdict # "success"
           /\ (employee /\ both) => verdict = "success"
           /\ (student /\ ~role) => verdict # "success"
           /\ (student /\ role) => verdict = "success"

\* the kinds of building the claim calls residential
ResidentialKinds == {ResidenceHall}

\* C2: categorical consistency on Facility.  With a building kind outside
\* the residential subset, validate fails whenever the capacity is non-null
\* and succeeds when it is absent; with a residential kind, a capacity below
\* 0 is rejected and a capacity of 0 or more is accepted.
C2_CategoricalConsistency ==
    (Validated("Facility") /\ record["building_type"].kind = "str"
        /\ record["total_capacity"].kind \in {"absent", "null", "int"}) =>
        LET residential == record["building_type"].s \in ResidentialKinds
            capacity == record["total_capacity"]
            others == \A f \in FieldNames("Facility") \ {"building_type", "total_capacity"} :
                          record[f] = Baseline("Facility")[f]
        IN /\ (~residential /\ Present(record, "total_capacity")) => verdict # "success"
           /\ (~residential /\ ~Present(record, "total_capacity") /\ others)
                 => verdict = "success"
           /\ (residential /\ capacity.kind = "int" /\ capacity.n < 0)
                 => verdict # "success"
           /\ (residential /\ capacity.kind = "int" /\ capacity.n >= 0 /\ others)
                 => verdict = "success"

\* C3: for every registered shape and every required field of it, a
\* candidate that omits the field or supplies null is rejected with
\* StructuralError and no instance; a candidate that supplies every required
\* field with a value of its declared kind and leaves the optional fields
\* absent is accepted, and an accepted instance holds a value for every
\* required field.
C3_RequiredFields ==
    pc = "done" =>
        LET shape == ShapeOf(typeName)
        IN /\ (\E i \in DOMAIN shape :
                  shape[i].required /\ ~Present(record, shape[i].name))
                 => (verdict = "StructuralError" /\ instance = NoInstance)
           /\ (\A i \in DOMAIN shape :
                  IF shape[i].required
                  THEN ValueAt(record, shape[i].name).kind = shape[i].kind
                  ELSE ValueAt(record, shape[i].name) = Absent)
                 => (verdict = "success" /\ errors = <<>>)
           /\ verdict = "success" =>
                 \A i \in DOMAIN shape :
                    shape[i].required =>
                       instance[shape[i].name] = record[shape[i].name]

\* a ServiceRequest that omits description and gives null for location has
\* been rejected
C3_Witness ==
    /\ Validated("ServiceRequest")
    /\ record["description"] = Absent
    /\ record["location"] = Null
    /\ verdict = "StructuralError"

\* the four adjacent pairs of the five-level spatial hierarchy
AdjacentPairs ==
    { <<"LocationArea", "Facility">>, <<"Facility", "FloorOrSuite">>,
      <<"FloorOrSuite", "Room">>, <<"Room", "RoomSpace">> }

\* C5: is_legal_edge(parent, child, CONTAINS) is true exactly for the four
\* adjacent pairs of the spatial hierarchy and false for every other ordered
\* pair of registered types.
C5_ContainsAdjacentOnly ==
    (pc = "answered" /\ edgeQuery[3] = "CONTAINS") =>
        (edgeAnswer <=> <<edgeQuery[1], edgeQuery[2]>> \in AdjacentPairs)

\* a level-skipping query has been answered, and answered no
C5_Witness ==
    /\ pc = "answered"
    /\ edgeQuery = <<"Facility", "Room", "CONTAINS">>
    /\ edgeAnswer = FALSE

\* the relation is_legal_edge(., ., CONTAINS) over the registered types
ContainsRelation ==
    {pr \in TypeNames \X TypeNames : is_legal_edge(pr[1], pr[2], "CONTAINS")}

Irreflexive(R) == \A t \in TypeNames : <<t, t>> \notin R
Asymmetric(R) == \A pr \in R : <<pr[2], pr[1]>> \notin R
Transitive(R) ==
    \A a \in R, b \in R : a[2] = b[1] => <<a[1], b[2]>> \in R

\* one round of composition added to R
Compose(R) ==
    R \cup {<<q[1][1], q[2][2]>> : q \in {x \in R \X R : x[1][2] = x[2][1]}}

RECURSIVE Closure(_)
Closure(R) == IF Compose(R) = R THEN R ELSE Closure(Compose(R))

ContainsExamples ==
    /\ is_legal_edge("LocationArea", "Facility", "CONTAINS")
    /\ ~is_legal_edge("LocationArea", "Room", "CONTAINS")
    /\ ~is_legal_edge("Room", "LocationArea", "CONTAINS")

\* C6 as stated: hierarchy legality is a strict partial order, that is the
\* relation is irreflexive, asymmetric and transitive, with area->building
\* legal and area->room and room->area illegal.
C6_StrictPartialOrder ==
    pc = "answered" =>
        /\ Irreflexive(ContainsRelation)
        /\ Asymmetric(ContainsRelation)
        /\ Transitive(ContainsRelation)
        /\ ContainsExamples

\* C6 amended: the relation is irreflexive and asymmetric and no composite
\* of two legal edges is legal (it is the covering relation of the levels,
\* not transitive); its transitive closure is a strict partial order; and
\* area->building is legal, area->room and room->area are not.
C6_CoveringRelation ==
    pc = "answered" =>
        /\ Irreflexive(ContainsRelation)
        /\ Asymmetric(ContainsRelation)
        /\ \A a \in ContainsRelation, b \in ContainsRelation :
              a[2] = b[1] => <<a[1], b[2]>> \notin ContainsRelation
        /\ Irreflexive(Closure(ContainsRelation))
        /\ Transitive(Closure(ContainsRelation))
        /\ ContainsExamples

\* area->room has been asked and refused although area->building and the
\* edges below it down to the room are legal
C6_Witness ==
    /\ pc = "answered"
    /\ edgeQuery = <<"LocationArea", "Room", "CONTAINS">>
    /\ edgeAnswer = FALSE
    /\ <<"LocationArea", "Room">> \in Closure(ContainsRelation)

\* the field the claim names as the discriminant of a shape
Discriminant(t) ==
    CASE t = "Role" -> "affiliation_type"
      [] t = "Facility" -> "building_type"

\* C7: a record whose discriminant field is absent or null never yields a
\* success verdict.
C7_AbsentDiscriminantRejected ==
    (pc = "done" /\ typeName \in {"Role", "Facility"}
        /\ ~Present(record, Discriminant(typeName))) => verdict # "success"

\* the scalar fields of a shape that name its ancestors
ParentFields(t) ==
    CASE t = "Facility" -> {"location_area"}
      [] t = "FloorOrSuite" -> {"building_name"}
      [] t = "Room" -> {"floor_or_suite", "building_name"}
      [] t = "RoomSpace" -> {"room_number", "floor_or_suite", "building_name"}

\* C16: a FloorOrSuite, Room or RoomSpace record that lacks one of its
\* parent-reference fields is rejected, so every accepted record of levels 3
\* to 5 carries a text for each of its ancestors down to the building; a
\* Facility record that only lacks location_area is accepted.
C16_ParentReferencesRequired ==
    pc = "done" =>
        /\ typeName \in {"FloorOrSuite", "Room", "RoomSpace"} =>
              /\ (\E f \in ParentFields(typeName) : ~Present(record, f))
                    => (verdict = "StructuralError" /\ instance = NoInstance)
              /\ verdict = "success" =>
                    \A f \in ParentFields(typeName) :
                       instance[f].kind = "str" /\ instance[f] = record[f]
        /\ (typeName = "Facility"
              /\ \A f \in FieldNames("Facility") \ ParentFields("Facility") :
                    record[f] = Baseline("Facility")[f])
              => (~Present(record, "location_area") => verdict = "success")

\* a Room that names its building but not its floor or suite has been
\* rejected for that field alone
C16_Witness ==
    /\ Validated("Room")
    /\ record["floor_or_suite"] = Absent
    /\ Present(record, "building_name")
    /\ verdict = "StructuralError"
    /\ Len(errors) = 1
    /\ errors[1].loc = "floor_or_suite"

\* the type names of the shipped registry, in registration order
ShippedOrder ==
    << "Role", "LocationArea", "Facility", "FloorOrSuite", "Room", "RoomSpace",
       "AmenityFacility", "Agreement", "ServiceRequest", "Assignment",
       "Policy", "Application", "Event", "FinancialTransaction" >>

ShippedNames == {ShippedOrder[i] : i \in DOMAIN ShippedOrder}

\* C13: the lookup of every registered type name succeeds and returns a
\* definition with a non-empty field list of pairwise distinct names; the
\* fourteen shipped names are all registered.
C13_LookupRegistered ==
    pc = "looked" =>
        /\ lookupName \in ShippedNames => Registered(catalog, lookupName)
        /\ Registered(catalog, lookupName) =>
              LET fields == lookupResult.definition
              IN /\ lookupResult.outcome = "returned"
                 /\ Len(fields) > 0
                 /\ \A i \in DOMAIN fields, j \in DOMAIN fields :
                       fields[i].name = fields[j].name => i = j

\* the last shape of the spatial hierarchy has been looked up and its nine
\* fields returned
C13_Witness ==
    /\ pc = "looked"
    /\ lookupName = "RoomSpace"
    /\ lookupResult.outcome = "returned"
    /\ Len(lookupResult.definition) = 9

C15_EnumerationOrder ==
    pc = "enumerating" =>
        \A i \in DOMAIN iters :
            /\ iters[i].pos <= Len(ShippedOrder)
            /\ iters[i].out = SubSeq(ShippedOrder, 1, iters[i].pos)
            /\ iters[i].done => iters[i].out = ShippedOrder

\* a second enumeration, started after the first had yielded three names,
\* has run to its end and yielded all fourteen
C15_Witness ==
    /\ pc = "enumerating"
    /\ Len(iters) = 2
    /\ iters[1].pos = 3
    /\ iters[2].done
    /\ iters[2].out = ShippedOrder

====
